---- MODULE Spec2Model ----
(***************************************************************************)
(* Hand tracking and finger counting (hand-detection.ipynb).               *)
(*                                                                         *)
(* The notebook keeps a running-average background, segments the largest   *)
(* region that differs from it, and counts the contours that a ring around *)
(* the hand centre cuts out of the foreground.  The module models          *)
(*   - calc_accum_avg, segment and count_fingers as operators, and         *)
(*   - the frame loop as one action per loop iteration.                    *)
(*                                                                         *)
(* Images are functions from pixels <<x, y>> to intensities.  float32      *)
(* accumulators are integers counting units of 2^-17, the float32 spacing  *)
(* in [64, 128); in [128, 256) the spacing is 2^-16, two units.  All       *)
(* intensities the model feeds in lie in 64..255, so every accumulator     *)
(* stays in [64, 256) and the rounding below is the float32 rounding.      *)
(*                                                                         *)
(* OpenCV itself is not part of the repository.  cv2.findContours is       *)
(* modelled on masks whose 8-connected components are filled axis-aligned  *)
(* rectangles (lines and single pixels included), where its output is the  *)
(* rectangle's outline.  The order of the returned list is a property of   *)
(* the library in use, scan order or its reverse, fixed for a run; the     *)
(* start and the orientation of cv2.convexHull's output are drawn          *)
(* nondeterministically at every call.                                     *)
(***************************************************************************)
EXTENDS Integers, Naturals, Sequences, FiniteSets, TLC

VARIABLES
    num_frames,     \* frames processed so far (loop counter)
    background,     \* None or the float32 accumulator image
    gray,           \* the grayscale, blurred region of interest of the last frame
    display_text,   \* the text variable of the loop
    overlay,        \* what cv2.putText drew in the last iteration ("" when not called)
    hand,           \* what segment returned last: None or <<thresholded, hand_segment>>
    fingers,        \* what count_fingers returned last
    running,        \* FALSE once the loop has left through a break
    called,         \* the functions of the notebook the last iteration called
    pc,             \* stage of the function harness ("loop" in the frame loop)
    scene,          \* function harness: the foreground rectangles in front of the camera
    thresholded,    \* local of segment: the binarized difference
    contours,       \* local of segment: the extracted contours, in extraction order
    cf,             \* locals of count_fingers at its return
    fault,          \* TRUE once a call has raised
    listing         \* the order in which cv2.findContours lists contours

vars == <<num_frames, background, gray, display_text, overlay, hand, fingers,
          running, called, pc, scene, thresholded, contours, cf, fault, listing>>

-----------------------------------------------------------------------------
(* Bounds of the model *)

\* width and height of the region of interest in the function harness
GridW == 2
GridH == 5
\* height of the one-pixel-wide region of interest in the frame loop
ColumnH == 6
\* most foreground blobs in a scene of the function harness
MaxBlobs == 2
\* frames processed after the warm-up before the model stops the loop
MaxSteadyTicks == 3
\* the camera's scene may change during this many last warm-up frames
UnsettledTicks == 2

(* Constants of the program *)

WarmupFrames == 60
WaitTextFrames == 59
ThresholdMin == 25
RingThickness == 10
EscKey == 27
MaxVal == 255
\* accumulated_weight = 0.5 as numerator and denominator
accumulated_weight == <<1, 2>>

None == <<>>

\* float32 accumulators count units of 2^-17
Scale == 2 ^ 17

Abs(n) == IF n < 0 THEN -n ELSE n

-----------------------------------------------------------------------------
(* float32 arithmetic of the background accumulator *)

\* a / b rounded to the nearest integer, ties to even (b > 0, a >= 0)
RoundHalfEven(a, b) ==
    LET q == a \div b
        r == a % b
    IN  IF 2 * r < b THEN q
        ELSE IF 2 * r > b THEN q + 1
        ELSE IF q % 2 = 0 THEN q ELSE q + 1

\* n / den units rounded to a float32: below 128 the spacing is one unit,
\* from 128 on it is two units
RoundFloat32(n, den) ==
    IF n < 128 * Scale * den
    THEN RoundHalfEven(n, den)
    ELSE 2 * RoundHalfEven(n, 2 * den)

\* np.float32(frame): exact for 8-bit intensities
Float32(frame) == [p \in DOMAIN frame |-> frame[p] * Scale]

\* variant: the weighted sum goes to a copy and dst stays as it was
AccumulateIntoCopy(src, dst, alpha) == dst

\* cv2.accumulateWeighted(src, dst, alpha): dst = src*alpha + dst*(1 - alpha)
\* in float32.  With alpha = 1/2 both products are exact and the sum is
\* rounded once.
AccumulateWeighted(src, dst, alpha) ==
    [p \in DOMAIN dst |->
        RoundFloat32(src[p] * alpha[1] + dst[p] * (alpha[2] - alpha[1]), alpha[2])]

\* background.astype('uint8'): truncation toward zero, modulo 256
AsUint8(img) == [p \in DOMAIN img |-> (img[p] \div Scale) % (MaxVal + 1)]

\* variant: an unset background is taken as a zero image and smoothed
calc_accum_avg_from_zero(frame, weight, bg) ==
    AccumulateWeighted(Float32(frame),
                       IF bg = None THEN [p \in DOMAIN frame |-> 0] ELSE bg,
                       weight)

calc_accum_avg(frame, weight, bg) ==
    IF bg = None
    THEN Float32(frame)
    ELSE AccumulateWeighted(Float32(frame), bg, weight)

-----------------------------------------------------------------------------
(* OpenCV operations used by segment and count_fingers *)

\* cv2.absdiff on 8-bit images
AbsDiff(a, b) == [p \in DOMAIN a |-> Abs(a[p] - b[p])]

\* variant: a difference equal to the threshold is foreground
ThresholdInclusive(src, thresh, maxval) ==
    [p \in DOMAIN src |-> IF src[p] >= thresh THEN maxval ELSE 0]

\* cv2.threshold(src, thresh, maxval, cv2.THRESH_BINARY)
Threshold(src, thresh, maxval) ==
    [p \in DOMAIN src |-> IF src[p] > thresh THEN maxval ELSE 0]

Foreground(img) == {p \in DOMAIN img : img[p] # 0}

\* the pixels of the rectangle <<x0, y0, x1, y1>>, corners included
RectPixels(r) == (r[1]..r[3]) \X (r[2]..r[4])

\* the pixels around a rectangle, its 8-neighbourhood
RectHalo(r) == ((r[1] - 1)..(r[3] + 1)) \X ((r[2] - 1)..(r[4] + 1)) \ RectPixels(r)

\* the 8-connected foreground components that are filled rectangles
\* the rectangle spanned by the foreground runs to the right of and below
\* pixel p
SpanFrom(fg, p) ==
    LET x1 == CHOOSE x \in {q[1] : q \in fg} :
                  /\ x >= p[1]
                  /\ \A u \in p[1]..x : <<u, p[2]>> \in fg
                  /\ <<x + 1, p[2]>> \notin fg
        y1 == CHOOSE y \in {q[2] : q \in fg} :
                  /\ y >= p[2]
                  /\ \A v \in p[2]..y : <<p[1], v>> \in fg
                  /\ <<p[1], y + 1>> \notin fg
    IN  <<p[1], p[2], x1, y1>>

Components(img) ==
    LET fg == Foreground(img)
        corners == {p \in fg : <<p[1] - 1, p[2]>> \notin fg /\ <<p[1], p[2] - 1>> \notin fg}
    IN  {r \in {SpanFrom(fg, p) : p \in corners} :
            /\ RectPixels(r) \subseteq fg
            /\ RectHalo(r) \cap fg = {}}

\* every foreground pixel lies in a rectangular component
RectDecomposable(img) ==
    Foreground(img) = UNION {RectPixels(r) : r \in Components(img)}

\* components in the order a raster scan (top to bottom, left to right)
\* meets them
RECURSIVE ScanOrder(_)
ScanOrder(rs) ==
    IF rs = {} THEN <<>>
    ELSE LET first == CHOOSE r \in rs : \A q \in rs :
                          r[2] < q[2] \/ (r[2] = q[2] /\ r[1] <= q[1])
         IN  <<first>> \o ScanOrder(rs \ {first})

Reverse(s) == [i \in 1..Len(s) |-> s[Len(s) + 1 - i]]

\* the pixels from a to b along y at fixed x and along x at fixed y, forward
\* (a <= b) and backward (a >= b)
AlongY(x, a, b) == IF a > b THEN <<>> ELSE [i \in 1..(b - a + 1) |-> <<x, a + i - 1>>]
BackY(x, a, b) == IF a < b THEN <<>> ELSE [i \in 1..(a - b + 1) |-> <<x, a - i + 1>>]
AlongX(y, a, b) == IF a > b THEN <<>> ELSE [i \in 1..(b - a + 1) |-> <<a + i - 1, y>>]
BackX(y, a, b) == IF a < b THEN <<>> ELSE [i \in 1..(a - b + 1) |-> <<a - i + 1, y>>]

\* outer border of a rectangular component, from its top-left pixel down
\* the left side and back along the right side; cv2.CHAIN_APPROX_NONE keeps
\* every border step, cv2.CHAIN_APPROX_SIMPLE only the end points of the
\* straight runs
Outline(r, method) ==
    LET x0 == r[1]
        y0 == r[2]
        x1 == r[3]
        y1 == r[4]
    IN  IF method = "CHAIN_APPROX_SIMPLE"
        THEN IF x0 = x1 /\ y0 = y1 THEN << <<x0, y0>> >>
             ELSE IF x0 = x1 THEN << <<x0, y0>>, <<x0, y1>> >>
             ELSE IF y0 = y1 THEN << <<x0, y0>>, <<x1, y0>> >>
             ELSE << <<x0, y0>>, <<x0, y1>>, <<x1, y1>>, <<x1, y0>> >>
        ELSE IF x0 = x1 /\ y0 = y1 THEN << <<x0, y0>> >>
             ELSE IF x0 = x1 THEN AlongY(x0, y0, y1) \o BackY(x0, y1 - 1, y0 + 1)
             ELSE IF y0 = y1 THEN AlongX(y0, x0, x1) \o BackX(y0, x1 - 1, x0 + 1)
             ELSE AlongY(x0, y0, y1) \o AlongX(y1, x0 + 1, x1)
                  \o BackY(x1, y1 - 1, y0) \o BackX(y0, x1 - 1, x0 + 1)

\* cv2.findContours(img, cv2.RETR_EXTERNAL, method): one contour per
\* component; the list comes in scan order or reversed
FindContours(img, method, order) ==
    LET found == ScanOrder(Components(img))
        listed == IF order = "reverse" THEN Reverse(found) ELSE found
    IN  [i \in 1..Len(listed) |-> Outline(listed[i], method)]

\* cv2.contourArea: |sum of cross products| / 2; the model keeps the
\* doubled value so that it stays an integer
ContourArea(c) ==
    LET n == Len(c)
        After(i) == IF i = n THEN 1 ELSE i + 1
        RECURSIVE Sum(_)
        Sum(i) == IF i > n THEN 0
                  ELSE c[i][1] * c[After(i)][2] - c[After(i)][1] * c[i][2] + Sum(i + 1)
    IN  Abs(Sum(1))

\* cv2.boundingRect: <<x, y, w, h>>
BoundingRect(c) ==
    LET xs == {c[i][1] : i \in 1..Len(c)}
        ys == {c[i][2] : i \in 1..Len(c)}
        x == CHOOSE v \in xs : \A u \in xs : v <= u
        y == CHOOSE v \in ys : \A u \in ys : v <= u
        xm == CHOOSE v \in xs : \A u \in xs : v >= u
        ym == CHOOSE v \in ys : \A u \in ys : v >= u
    IN  <<x, y, xm - x + 1, ym - y + 1>>

\* cv2.convexHull of a contour that is already a convex polygon (every
\* CHAIN_APPROX_SIMPLE outline above is): the same cycle of points, from
\* the start and in the orientation the library picks
ConvexHull(c, start, clockwise) ==
    LET n == Len(c)
        turned == [i \in 1..n |-> c[((i - 1 + start) % n) + 1]]
    IN  IF clockwise THEN Reverse(turned) ELSE turned

\* numpy argmin / argmax over coordinate k: the first index of the extreme
ArgMin(h, k) ==
    CHOOSE i \in 1..Len(h) :
        /\ \A j \in 1..Len(h) : h[i][k] <= h[j][k]
        /\ \A j \in 1..(i - 1) : h[j][k] > h[i][k]

ArgMax(h, k) ==
    CHOOSE i \in 1..Len(h) :
        /\ \A j \in 1..Len(h) : h[i][k] >= h[j][k]
        /\ \A j \in 1..(i - 1) : h[j][k] < h[i][k]

\* squared Euclidean distance
SqDist(p, q) == (p[1] - q[1]) * (p[1] - q[1]) + (p[2] - q[2]) * (p[2] - q[2])

SetMax(s) == CHOOSE v \in s : \A u \in s : v >= u

\* int(0.9 * sqrt(sq)): the largest r with 10 r <= 9 sqrt(sq)
RECURSIVE IntNineTenthsRootFrom(_, _)
IntNineTenthsRootFrom(sq, r) ==
    IF 100 * (r + 1) * (r + 1) <= 81 * sq
    THEN IntNineTenthsRootFrom(sq, r + 1)
    ELSE r

\* variant: round(0.9 * sqrt(sq)), the largest r with 10 r - 5 <= 9 sqrt(sq)
RECURSIVE RoundNineTenthsRootFrom(_, _)
RoundNineTenthsRootFrom(sq, r) ==
    IF (10 * r + 5) * (10 * r + 5) <= 81 * sq
    THEN RoundNineTenthsRootFrom(sq, r + 1)
    ELSE r

RadiusRounded(max_sq) == RoundNineTenthsRootFrom(max_sq, 0)

\* radius = int(0.9 * max_distance)
Radius(max_sq) == IntNineTenthsRootFrom(max_sq, 0)

\* cv2.circle(img, center, radius, 255, thickness) on a zero image: the
\* pixels whose distance to the centre is within thickness / 2 of the radius
Circle(pixels, center, radius, color, thickness) ==
    LET inner == radius - thickness \div 2
        outer == radius + thickness \div 2
    IN  [p \in pixels |->
            IF /\ SqDist(p, center) <= outer * outer
               /\ (inner <= 0 \/ SqDist(p, center) >= inner * inner)
            THEN color ELSE 0]

\* cv2.bitwise_and(src, src, mask=mask)
BitwiseAnd(src, mask) == [p \in DOMAIN src |-> IF mask[p] # 0 THEN src[p] ELSE 0]

-----------------------------------------------------------------------------
(* segment *)

\* max(contours, key=cv2.contourArea): the first contour of largest area
RECURSIVE MaxContourFrom(_, _, _)
MaxContourFrom(cs, i, best) ==
    IF i > Len(cs) THEN cs[best]
    ELSE MaxContourFrom(cs, i + 1,
                        IF ContourArea(cs[i]) > ContourArea(cs[best]) THEN i ELSE best)

\* variant: the last contour of largest area
RECURSIVE LastMaxContourFrom(_, _, _)
LastMaxContourFrom(cs, i, best) ==
    IF i > Len(cs) THEN cs[best]
    ELSE LastMaxContourFrom(cs, i + 1,
                            IF ContourArea(cs[i]) >= ContourArea(cs[best]) THEN i ELSE best)

MaxContourLast(cs) == LastMaxContourFrom(cs, 2, 1)

MaxContour(cs) == MaxContourFrom(cs, 2, 1)

\* segment(frame, background, threshold_min) with its locals; order is the
\* library's listing order of the contours
segment(frame, bg, threshold_min, order) ==
    LET diff == AbsDiff(AsUint8(bg), frame)
        th == Threshold(diff, threshold_min, MaxVal)
        cs == FindContours(th, "CHAIN_APPROX_SIMPLE", order)
    IN  [thresholded |-> th,
         contours |-> cs,
         result |-> IF Len(cs) = 0 THEN None ELSE <<th, MaxContour(cs)>>]

\* variant: the cast to 8 bits is done in place
BackgroundCastInPlace(bg) == Float32(AsUint8(bg))

\* segment reads the background through background.astype('uint8'), a
\* copy: the accumulator after the call is the accumulator before it
BackgroundAfterSegment(bg) == bg

-----------------------------------------------------------------------------
(* count_fingers *)

\* out_of_wrist = (cY + (cY * 0.25)) > (y + h), exact in floating point
OutOfWrist(cY, rect) == 5 * cY > 4 * (rect[2] + rect[4])

\* limit_points = ((2 * np.pi * radius * 0.25) > contour.shape[0]).
\* pi r > 2 n  iff  355 r > 226 n for every radius below 33000: no
\* fraction with such a denominator lies between pi and 355/113
LimitPoints(radius, contour) == 355 * radius > 226 * Len(contour)

\* variant: one passed test is enough
IsFingerEither(cY, radius, contour) ==
    OutOfWrist(cY, BoundingRect(contour)) \/ LimitPoints(radius, contour)

\* if out_of_wrist and limit_points
IsFinger(cY, radius, contour) ==
    OutOfWrist(cY, BoundingRect(contour)) /\ LimitPoints(radius, contour)

\* the loop over the contours: count those passing both tests
RECURSIVE CountFrom(_, _, _, _)
CountFrom(cs, i, cY, radius) ==
    IF i > Len(cs) THEN 0
    ELSE (IF IsFinger(cY, radius, cs[i]) THEN 1 ELSE 0)
         + CountFrom(cs, i + 1, cY, radius)

\* count_fingers(thresholded, hand_segment) with its locals at the return;
\* order is the library's listing order of the contours, hull the start and
\* the orientation of the hull it returns
count_fingers(th, hand_segment, order, hull) ==
    LET conv_hull == ConvexHull(hand_segment, hull.start % Len(hand_segment), hull.clockwise)
        top == conv_hull[ArgMin(conv_hull, 2)]
        bottom == conv_hull[ArgMax(conv_hull, 2)]
        left == conv_hull[ArgMin(conv_hull, 1)]
        right == conv_hull[ArgMax(conv_hull, 1)]
        cX == (left[1] + right[1]) \div 2
        cY == (top[2] + bottom[2]) \div 2
        max_sq == SetMax({SqDist(<<cX, cY>>, q) : q \in {left, right, top, bottom}})
        radius == Radius(max_sq)
        ring == Circle(DOMAIN th, <<cX, cY>>, radius, MaxVal, RingThickness)
        circular_roi == BitwiseAnd(th, ring)
        cs == FindContours(circular_roi, "CHAIN_APPROX_NONE", order)
    IN  [top |-> top, bottom |-> bottom, left |-> left, right |-> right,
         cX |-> cX, cY |-> cY, max_sq |-> max_sq, radius |-> radius,
         circular_roi |-> circular_roi, contours |-> cs,
         count |-> CountFrom(cs, 1, cY, radius)]

\* cv2.convexHull and argmin raise on a contour without points
CountFingersRaises(hand_segment) == Len(hand_segment) = 0

-----------------------------------------------------------------------------
(* Inputs *)

\* the library's choices: listing order of the contours, start and
\* orientation of a hull
Listings == {"scan", "reverse"}
Hulls == [start : 0..3, clockwise : BOOLEAN]

\* two rectangles with at least one pixel between them in x or in y
Separated(r, q) ==
    \/ r[3] + 1 < q[1] \/ q[3] + 1 < r[1]
    \/ r[4] + 1 < q[2] \/ q[4] + 1 < r[2]

\* the frame showing the rectangles of sc at intensity fg before intensity near
Render(pixels, sc, fg, near) ==
    [p \in pixels |-> IF \E r \in sc : p \in RectPixels(r) THEN fg ELSE near]

\* frame loop: the region of interest is a column, ColumnH pixels high
LoopPixels == {0} \X (0..(ColumnH - 1))

\* an empty scene, a fist, a fist with one finger
LoopScenes ==
    {{}, {<<0, 2, 0, ColumnH - 1>>}, {<<0, 2, 0, ColumnH - 1>>, <<0, 0, 0, 0>>}}

\* the frames the camera delivers in the frame loop: the scenes 26 above a
\* background of 100, and the background 25 brighter
LoopFrames ==
    {Render(LoopPixels, sc, 126, 100) : sc \in LoopScenes}
        \cup {Render(LoopPixels, {}, 125, 125)}

\* cv2.waitKey(1): the escape key or no key
Keys == {EscKey, -1}

\* function harness: the region of interest
Grid == (0..(GridW - 1)) \X (0..(GridH - 1))

GridRects ==
    {r \in (0..(GridW - 1)) \X (0..(GridH - 1)) \X (0..(GridW - 1)) \X (0..(GridH - 1)) :
        r[1] <= r[3] /\ r[2] <= r[4]}

\* function harness: background level (float32 units), intensity of the
\* blobs and of the rest of the frame.  Differences of 26 and 25, of 27 and
\* 25 against a background of 125.75, and a frame darker than a background
\* of 100.5
Lightings ==
    {[bg |-> 100 * Scale, fg |-> 126, near |-> 125],
     [bg |-> 125 * Scale + 3 * (Scale \div 4), fg |-> 152, near |-> 100],
     [bg |-> 100 * Scale + Scale \div 2, fg |-> 74, near |-> 75]}

-----------------------------------------------------------------------------
(* The frame loop *)

Init ==
    /\ num_frames = 0
    /\ background = None
    /\ gray = None
    /\ display_text = "<unbound>"
    /\ overlay = ""
    /\ hand = None
    /\ fingers = 0
    /\ running = TRUE
    /\ called = {}
    /\ pc = "loop"
    /\ scene = {}
    /\ thresholded = None
    /\ contours = <<>>
    /\ cf = None
    /\ fault = FALSE
    /\ listing \in Listings

\* variant: the warm-up ends one frame early
WarmingUpShort(n) == n < WaitTextFrames

\* if num_frames < 60
WarmingUp(n) == n < WarmupFrames

\* 'WAIT. GETTING BACKGROUND' if num_frames < 59 else ''
WarmupText(n) == IF n < WaitTextFrames THEN "WAIT. GETTING BACKGROUND" ELSE ""

\* f'{fingers} fingers'
FingersText(n) == ToString(n) \o " fingers"

\* display_text after the steady-state branch: assigned only when a hand
\* was found
SteadyText(found, n, text) == IF found THEN FingersText(n) ELSE text

\* if display_text: cv2.putText(frame_copy, display_text, ...)
Drawn(text) == IF text # "" THEN text ELSE ""

\* cam.read() returned ret = False: print and break
ReadFail ==
    /\ pc = "loop"
    /\ running
    /\ running' = FALSE
    /\ called' = {}
    /\ UNCHANGED <<num_frames, background, gray, display_text, overlay, hand,
                   fingers, pc, scene, thresholded, contours, cf, fault, listing>>

\* one iteration of the while loop with a frame read
Iterate(frame, key, hull) ==
    /\ pc = "loop"
    /\ running
    /\ num_frames < WarmupFrames + MaxSteadyTicks
    /\ gray' = frame
    /\ IF WarmingUp(num_frames)
       THEN /\ background' = calc_accum_avg(frame, accumulated_weight, background)
            /\ display_text' = WarmupText(num_frames)
            /\ called' = {"calc_accum_avg"}
            /\ thresholded' = None
            /\ contours' = <<>>
            /\ cf' = None
            /\ UNCHANGED <<hand, fingers>>
       ELSE LET seg == segment(frame, background, ThresholdMin, listing)
            IN  /\ hand' = seg.result
                /\ background' = BackgroundAfterSegment(background)
                /\ thresholded' = seg.thresholded
                /\ contours' = seg.contours
                /\ IF seg.result # None
                   THEN LET cnt == count_fingers(seg.result[1], seg.result[2], listing, hull)
                        IN  /\ fingers' = cnt.count
                            /\ cf' = cnt
                            /\ called' = {"segment", "count_fingers"}
                   ELSE /\ cf' = None
                        /\ called' = {"segment"}
                        /\ UNCHANGED fingers
                /\ display_text' = SteadyText(seg.result # None, fingers', display_text)
    /\ overlay' = Drawn(display_text')
    /\ num_frames' = num_frames + 1
    /\ running' = (key % (MaxVal + 1) # EscKey)
    /\ UNCHANGED <<pc, scene, fault, listing>>

\* the scene in front of the camera is at rest except while the first
\* frame is read and during the last UnsettledTicks frames of the warm-up
CameraAtRest(n) == n > 0 /\ n < WarmupFrames - UnsettledTicks

\* the hull choices that can matter at frame n: none during the warm-up
HullsAt(n) == IF WarmingUp(n) THEN {CHOOSE h \in Hulls : TRUE} ELSE Hulls

Capture ==
    \E frame \in LoopFrames, key \in Keys, hull \in HullsAt(num_frames) :
        /\ CameraAtRest(num_frames) => frame = gray
        /\ Iterate(frame, key, hull)

Next == ReadFail \/ Capture

Spec == Init /\ [][Next]_vars

\* a camera whose scene changes once, after the first frame, and then stays
CaptureStill ==
    \E frame \in LoopFrames, key \in Keys, hull \in HullsAt(num_frames) :
        /\ num_frames > 1 => frame = gray
        /\ Iterate(frame, key, hull)

NextStill == ReadFail \/ CaptureStill

SpecStill == Init /\ [][NextStill]_vars

-----------------------------------------------------------------------------
(* The functions called directly on synthetic frames *)

InitCalls ==
    /\ num_frames = 0
    /\ background = None
    /\ gray = None
    /\ display_text = "<unbound>"
    /\ overlay = ""
    /\ hand = None
    /\ fingers = 0
    /\ running = FALSE
    /\ called = {}
    /\ pc = "scene"
    /\ scene = {}
    /\ thresholded = None
    /\ contours = <<>>
    /\ cf = None
    /\ fault = FALSE
    /\ listing \in Listings

\* one more blob in front of the camera, apart from the others
AddBlob(r) ==
    /\ pc = "scene"
    /\ Cardinality(scene) < MaxBlobs
    /\ \A q \in scene : Separated(r, q)
    /\ scene' = scene \cup {r}
    /\ UNCHANGED <<num_frames, background, gray, display_text, overlay, hand,
                   fingers, running, called, pc, thresholded, contours, cf, fault,
                   listing>>

\* segment(gray, background, 25) on the frame of the scene
CallSegment(light) ==
    /\ pc = "scene"
    /\ LET frame == Render(Grid, scene, light.fg, light.near)
           bg == [p \in Grid |-> light.bg]
           seg == segment(frame, bg, ThresholdMin, listing)
       IN  /\ gray' = frame
           /\ background' = BackgroundAfterSegment(bg)
           /\ thresholded' = seg.thresholded
           /\ contours' = seg.contours
           /\ hand' = seg.result
    /\ called' = {"segment"}
    /\ pc' = "segmented"
    /\ UNCHANGED <<num_frames, display_text, overlay, fingers, running, scene,
                   cf, fault, listing>>

\* count_fingers(th, hand_segment) returns the count
CallCountFingers(th, hand_segment, hull) ==
    /\ ~CountFingersRaises(hand_segment)
    /\ called' = {"count_fingers"}
    /\ LET cnt == count_fingers(th, hand_segment, listing, hull)
       IN  /\ RectDecomposable(cnt.circular_roi)
           /\ cf' = cnt
           /\ fingers' = cnt.count
    /\ pc' = "counted"
    /\ UNCHANGED <<num_frames, background, gray, display_text, overlay, hand,
                   running, scene, thresholded, contours, fault, listing>>

\* count_fingers(th, hand_segment) raises before it has a hull
CallCountFingersRaising(th, hand_segment) ==
    /\ CountFingersRaises(hand_segment)
    /\ called' = {"count_fingers"}
    /\ fault' = TRUE
    /\ cf' = None
    /\ pc' = "raised"
    /\ UNCHANGED <<num_frames, background, gray, display_text, overlay, hand,
                   fingers, running, scene, thresholded, contours, listing>>

\* count_fingers on what segment returned
CountHand ==
    /\ pc = "segmented"
    /\ hand # None
    /\ \E hull \in Hulls : CallCountFingers(hand[1], hand[2], hull)

\* count_fingers on a contour without points
CountNoPoints ==
    /\ pc = "counted"
    /\ CallCountFingersRaising(thresholded, <<>>)

NextCalls ==
    \/ \E r \in GridRects : AddBlob(r)
    \/ \E light \in Lightings : CallSegment(light)
    \/ CountHand
    \/ CountNoPoints

SpecCalls == InitCalls /\ [][NextCalls]_vars

-----------------------------------------------------------------------------
(* Properties *)

\* the frame loop has processed a frame since the previous state
Processed == num_frames' = num_frames + 1

\* largest distance, in float32 units, between an accumulator and a frame
Dist(bg, frame) == SetMax({Abs(bg[p] - frame[p] * Scale) : p \in DOMAIN frame})

\* 8-bit difference between the truncated accumulator and the frame
Diff8(p) == Abs(background[p] \div Scale - gray[p])

\* C1: once the warm-up is over (60 frames processed) no iteration changes
\* the background: at every later tick it is what it was after tick 59.
C1_BackgroundFrozen ==
    [][num_frames >= WarmupFrames => background' = background]_vars

\* C1: segment has run on an accumulator with a fractional part, two ticks
\* into the steady state
C1_Witness ==
    /\ num_frames > WarmupFrames + 1
    /\ "segment" \in called
    /\ \E p \in DOMAIN background : background[p] % Scale # 0

\* C2: the first call of the background update (background unset) returns
\* the frame itself, pixel by pixel; only later warm-up calls smooth,
\* giving (bg + frame) / 2 rounded to a float32.
C2_FirstCallCopies ==
    [][(Processed /\ num_frames < WarmupFrames) =>
         IF background = None
         THEN /\ DOMAIN background' = DOMAIN gray'
              /\ \A p \in DOMAIN gray' : background'[p] = gray'[p] * Scale
         ELSE \A p \in DOMAIN gray' :
                  Abs(2 * background'[p] - (background[p] + gray'[p] * Scale)) <= 2
      ]_vars

\* C2: the first call has been made
C2_Witness ==
    /\ num_frames = 1
    /\ called = {"calc_accum_avg"}
    /\ background # None

\* C3: while the frame F is held, every further application of the update
\* brings the accumulator strictly closer to F, until the distance is zero.
C3_Converges ==
    [][(Processed /\ num_frames < WarmupFrames /\ background # None /\ gray' = gray) =>
         \/ Dist(background, gray) = 0
         \/ Dist(background', gray) < Dist(background, gray)
      ]_vars

\* C3: F has been applied at least twice and the accumulator is still away
\* from it
C3_Witness ==
    /\ num_frames >= 3
    /\ num_frames < WarmupFrames
    /\ Dist(background, gray) > 0

\* C4: a mask pixel is 255 exactly when its 8-bit difference is strictly
\* above the threshold, and 0 otherwise; when no difference is above the
\* threshold (differences equal to it included) segment returns None.
C4_StrictThreshold ==
    pc \in {"segmented", "counted", "raised"} =>
        /\ \A p \in Grid :
              /\ thresholded[p] \in {0, MaxVal}
              /\ thresholded[p] = MaxVal <=> Diff8(p) > ThresholdMin
        /\ (\A p \in Grid : Diff8(p) <= ThresholdMin) => hand = None

\* C4: segment returned None on a frame with a difference equal to the
\* threshold, against an accumulator with a fractional part
C4_Witness ==
    /\ pc = "segmented"
    /\ hand = None
    /\ \E p \in Grid : Diff8(p) = ThresholdMin /\ background[p] % Scale # 0

\* C5 (as claimed): at a steady-state tick where segment returns None no
\* text is drawn, and a finger count drawn at a tick is the count computed
\* at that tick.
C5_NoStaleOverlay ==
    (pc = "loop" /\ num_frames > WarmupFrames /\ "segment" \in called) =>
        /\ hand = None => overlay = ""
        /\ overlay # "" => "count_fingers" \in called

\* the contours of the ring-masked image that pass both tests of the loop,
\* written as the claim states them
Accepted ==
    {i \in 1..Len(cf.contours) :
        LET rect == BoundingRect(cf.contours[i])
        IN  /\ 4 * cf.cY + cf.cY > 4 * (rect[2] + rect[4])
            /\ 226 * Len(cf.contours[i]) < 355 * cf.radius}

\* C6: count_fingers returns the number of contours of the ring-masked
\* foreground whose bounding rectangle satisfies cY + 0.25 cY > y + h and
\* whose point count is below 0.25 * 2 pi r; the result is between 0 and
\* the number of contours.
C6_CountsAccepted ==
    pc = "counted" =>
        /\ cf.contours = FindContours(cf.circular_roi, "CHAIN_APPROX_NONE", listing)
        /\ fingers = Cardinality(Accepted)
        /\ fingers >= 0
        /\ fingers <= Len(cf.contours)

\* C6: a contour was counted and another was not
C6_Witness ==
    /\ pc = "counted"
    /\ fingers >= 1
    /\ fingers < Len(cf.contours)

\* C7 (as claimed): no call of count_fingers raises, and a contour of zero
\* area never adds to the count.
C7_DegenerateSkipped ==
    /\ ~fault
    /\ pc = "counted" =>
          fingers = Cardinality({i \in Accepted : ContourArea(cf.contours[i]) > 0})

\* squared largest distance from the hand centre to the four extreme points
MaxSqDistance ==
    SetMax({SqDist(<<cf.cX, cf.cY>>, q) : q \in {cf.left, cf.right, cf.top, cf.bottom}})

\* C8 (as claimed): the radius is 0.9 D rounded to the nearest integer.
C8_RadiusRounds ==
    pc = "counted" =>
        /\ cf.radius = 0 \/ (10 * cf.radius - 5) * (10 * cf.radius - 5) <= 81 * MaxSqDistance
        /\ 81 * MaxSqDistance <= (10 * cf.radius + 5) * (10 * cf.radius + 5)

\* C8 (amended): the radius is 0.9 D truncated to an integer,
\* r <= 0.9 D < r + 1, with D the largest distance from the hand centre
\* (the floored midpoints of the extreme points) to the extreme points.
C8_RadiusTruncates ==
    pc = "counted" =>
        /\ cf.cX = (cf.left[1] + cf.right[1]) \div 2
        /\ cf.cY = (cf.top[2] + cf.bottom[2]) \div 2
        /\ cf.radius >= 0
        /\ 100 * cf.radius * cf.radius <= 81 * MaxSqDistance
        /\ 81 * MaxSqDistance < 100 * (cf.radius + 1) * (cf.radius + 1)

\* C8: 0.9 D has a fractional part above one half, so that truncating and
\* rounding differ
C8_Witness ==
    /\ pc = "counted"
    /\ 81 * MaxSqDistance > (10 * cf.radius + 5) * (10 * cf.radius + 5)

\* C9: when the binarized difference has a contour, segment returns a
\* contour whose area is at least that of every extracted contour, and of
\* the contours of that area the first in extraction order.
C9_FirstLargest ==
    (pc \in {"segmented", "counted", "raised"} /\ Len(contours) > 0) =>
        /\ hand # None
        /\ hand[1] = thresholded
        /\ \E i \in 1..Len(contours) :
              /\ hand[2] = contours[i]
              /\ \A j \in 1..Len(contours) :
                    ContourArea(contours[j]) <= ContourArea(contours[i])
              /\ \A j \in 1..(i - 1) :
                    ContourArea(contours[j]) < ContourArea(contours[i])

\* C9: two contours share the largest, positive area and the first was
\* returned
C9_Witness ==
    /\ pc = "segmented"
    /\ Len(contours) = 2
    /\ ContourArea(contours[1]) > 0
    /\ ContourArea(contours[1]) = ContourArea(contours[2])
    /\ hand[2] = contours[1]

\* C10: an iteration on one of the first 60 frames calls the background
\* update and nothing else; an iteration on a later frame calls segment and
\* never the update; segment never runs on an unset background, and
\* count_fingers runs only at a tick >= 60 at which segment found a hand.
C10_WarmupThenSegment ==
    (pc = "loop" /\ called # {}) =>
        LET tick == num_frames - 1
        IN  /\ tick < WarmupFrames => called = {"calc_accum_avg"}
            /\ tick >= WarmupFrames =>
                  ("segment" \in called /\ "calc_accum_avg" \notin called)
            /\ "segment" \in called => background # None
            /\ "count_fingers" \in called =>
                  (tick >= WarmupFrames /\ "segment" \in called /\ hand # None)
            /\ (tick >= WarmupFrames /\ hand # None) => "count_fingers" \in called

\* C10: the first steady-state iteration, tick 60, found a hand and counted
C10_Witness ==
    /\ num_frames = WarmupFrames + 1
    /\ called = {"segment", "count_fingers"}

====
